---- MODULE Spec2Model ----
(***************************************************************************)
(* notesock: terminal pastebin server.                                     *)
(*                                                                         *)
(* A model of src/src/id_gen.rs (base-36 codec, RandomIdGenerator,         *)
(* PartitionIdGenerator) and of src/src/main.rs (main, paste_worker,       *)
(* cleanup_worker).                                                        *)
(*                                                                         *)
(* Strings are sequences of characters; a character is the value           *)
(* char::to_digit(36) gives it (0..35), and NonDigit stands for every      *)
(* character to_digit(36) rejects (the path separator '/').                *)
(* Option<T> is a sequence of length at most one: None is << >>, Some(x)   *)
(* is <<x>>.                                                               *)
(*                                                                         *)
(* Three specifications share the module:                                  *)
(*   SpecCodec  the codec applied to integers            (pure functions)  *)
(*   SpecGen    one generator driven by get / remove     (id_gen.rs)       *)
(*   Spec       the server: main, workers, cleanup       (main.rs)         *)
(***************************************************************************)
EXTENDS Integers, Sequences, FiniteSets, TLC

VARIABLES
    \* ---- SpecCodec
    cpc,        \* "int" | "encoded" | "decoded"
    ci,         \* the integer under test
    cs,         \* radix_36(ci).to_string()
    cd,         \* b36_to(cs)
    \* ---- SpecGen
    gpc,        \* "new" | "ready" | "err" | "panicked"
    gargs,      \* the arguments of new(): strategy, bounds, parameters, present_values
    rgen,       \* RandomIdGenerator    [min, max, max_iter, set]
    pgen,       \* PartitionIdGenerator [min, max, is_random, numbers, cache, max_pregen_size]
    debug_assertions, \* the build profile: overflow checks on (debug) or off (release)
    glast,      \* the last call made on the generator and what it returned
    returned,   \* the id strings get returned since construction
    issued,     \* the id strings get handed out and remove has not taken back
    removed,    \* whether remove was called since construction
    \* ---- Spec
    main_pc,    \* "start" | "serving": main before and after it spawned the threads
    args,       \* Args: id_range_lower, id_range_upper, talk_proxy, no_clean_pastedir_on_start
    clients,    \* how many connections the clients of this run make
    fs,         \* the entries of paste_dir, by name: absent, a directory, a stored paste
    ids,        \* the RandomIdGenerator<usize> behind the SafeGen mutex
    lock,       \* who holds the SafeGen mutex: "free", a worker, "cleanup"
    rx_paste,   \* the spmc queue of accepted connections
    accepted,   \* how many connections main accepted
    wk,         \* the paste workers: where each is in its loop, and its connection
    tx_clean,   \* the mpsc queue of (deadline, path) jobs
    cl,         \* the cleanup worker: where it is in its loop, and its job
    now         \* Instant::now()

codecVars == <<cpc, ci, cs, cd>>
genVars   == <<gpc, gargs, rgen, pgen, debug_assertions, glast, returned, issued, removed>>
srvVars   == <<main_pc, args, clients, fs, ids, lock, rx_paste, accepted, wk, tx_clean, cl, now>>

None == << >>
Some(x) == <<x>>
IsSome(o) == o # None
Unwrap(o) == o[1]

(***************************************************************************)
(* Bounds of the model.                                                    *)
(***************************************************************************)
\* SpecCodec encodes and decodes every integer in 0..MaxCodecInt
MaxCodecInt == 1400
\* Spec: connections main accepts (one more in the run with the wide range)
MaxConns == 2
\* Spec: the clock runs from 0 to MaxTime
MaxTime == 1
\* Spec: args.paste_len_kib and args.paste_expiry_sec
PasteLenKib == 1
PasteExpirySec == 1

(***************************************************************************)
(* Base-36 codec                                                           *)
(***************************************************************************)
NonDigit == 36

\* char::to_digit(36): the digit value of a base-36 character, None otherwise
to_digit(c) == IF c \in 0..35 THEN Some(c) ELSE None

\* radix_fmt::radix_36(i).to_string(): lowercase base 36, most significant
\* digit first, no leading zeros, zero as "0"
RECURSIVE radix_36(_)
radix_36(i) == IF i < 36 THEN <<i>> ELSE radix_36(i \div 36) \o <<i % 36>>

\* The weight b36_to gives the digit at position i (from the least
\* significant): 32u32.pow(i)
Weight(i) == 32 ^ i

\* b36_to::<T>(val).  For strings of at most 6 characters neither
\* 32u32.pow(i) (at most 2^30) nor the checked_add (at most 35 * (2^30 - 1) / 31)
\* leaves u32, so the arithmetic below is exact for T = u32 and T = usize;
\* every string of the model is shorter than that.
RECURSIVE b36_to_from(_, _, _)
b36_to_from(val, i, ret) ==
    IF i = Len(val) THEN Some(ret)
    ELSE LET a == Weight(i)
             b == to_digit(val[Len(val) - i])
         IN  IF b = None THEN None
             ELSE b36_to_from(val, i + 1, ret + a * Unwrap(b))

b36_to(val) == b36_to_from(val, 0, 0)

(***************************************************************************)
(* RandomIdGenerator<TRange>                                               *)
(***************************************************************************)
\* The integers min..max (exclusive), the range get samples from
Range(min, max) == min .. (max - 1)

\* present_values.iter().filter_map(b36_to).collect()
DecodePresent(values) == {Unwrap(b36_to(v)) : v \in {u \in values : b36_to(u) # None}}

\* RandomIdGenerator::new: None for Err, Some(generator) for Ok
RandomIdGenerator_new(min_s, max_s, max_iter, present_values) ==
    LET min == b36_to(min_s)
        max == b36_to(max_s)
    IN  IF min = None \/ max = None THEN None
        ELSE IF Range(Unwrap(min), Unwrap(max)) = {} THEN None
        ELSE Some([min |-> Unwrap(min), max |-> Unwrap(max), max_iter |-> max_iter,
                   set |-> IF present_values # None
                           THEN DecodePresent(Unwrap(present_values))
                           ELSE {}])

\* RandomIdGenerator::get: the set of <<returned value, set afterwards>> the
\* random draws can produce.  A draw outside the set is inserted and
\* returned.  While a live id is in the range a draw can hit it, and with a
\* retry cap max_iter draws in a row that hit end the loop with None; without
\* a cap the loop ends only with a successful insert.
RandomIdGenerator_get(g) ==
    LET free == Range(g.min, g.max) \ g.set
        hits == {<<Some(radix_36(id)), g.set \cup {id}>> : id \in free}
    IN  IF Range(g.min, g.max) \cap g.set # {} /\ g.max_iter # None
        THEN hits \cup {<<None, g.set>>}
        ELSE hits

\* How many integers one call of get is given by thread_rng, at most
MaxDraws == 3

\* The sequences of integers thread_rng can hand to one call of get
DrawSeqs(g) == UNION {[1..n -> Range(g.min, g.max)] : n \in 1..MaxDraws}

\* The loop of RandomIdGenerator::get on a given sequence of draws: id is
\* draws[k] and index retries were counted.  set.insert(id) ends the loop
\* when id is not live; otherwise the next draw is taken, and with a retry
\* cap index is incremented and None returned once it reached the cap,
\* before that draw is tried.  used is the number of draws taken, 0 when the
\* loop wants more draws than the sequence holds.
RECURSIVE get_loop(_, _, _, _)
get_loop(g, draws, k, index) ==
    IF draws[k] \notin g.set
    THEN [ret |-> Some(radix_36(draws[k])), set |-> g.set \cup {draws[k]}, used |-> k]
    ELSE IF k = Len(draws)
    THEN [ret |-> None, set |-> g.set, used |-> 0]
    ELSE IF g.max_iter # None /\ index + 1 >= Unwrap(g.max_iter)
    THEN [ret |-> None, set |-> g.set, used |-> k + 1]
    ELSE get_loop(g, draws, k + 1, IF g.max_iter # None THEN index + 1 ELSE index)

\* RandomIdGenerator::get on the draws it is given
RandomIdGenerator_get_on(g, draws) == get_loop(g, draws, 1, 0)

\* The sequences of draws one call of get takes in full
Draws(g) == {d \in DrawSeqs(g) : RandomIdGenerator_get_on(g, d).used = Len(d)}

\* RandomIdGenerator::remove: <<returned bool, set afterwards>>
RandomIdGenerator_remove(g, val) ==
    LET id == b36_to(val)
    IN  IF id = None THEN <<FALSE, g.set>>
        ELSE <<Unwrap(id) \in g.set, g.set \ {Unwrap(id)}>>

(***************************************************************************)
(* PartitionIdGenerator                                                    *)
(***************************************************************************)
\* usize::MAX, which take() can never reach: any number above every length
USIZE_MAX == 2147483647

RECURSIVE SortedSeq(_)
SortedSeq(S) ==
    IF S = {} THEN << >>
    ELSE LET m == CHOOSE x \in S : \A y \in S : x <= y
         IN  <<m>> \o SortedSeq(S \ {m})

\* once(min).chain(numbers).chain(once(max)).tuple_windows()
Windows(g) ==
    LET s == <<g.min>> \o SortedSeq(g.numbers) \o <<g.max>>
    IN  [k \in 1 .. (Len(s) - 1) |-> <<s[k], s[k + 1]>>]

\* up - lo in u32.  With up < lo the subtraction overflows: a panic with
\* debug assertions, and 2^32 - (lo - up) without.  The width is kept as
\* <<wrapped, up - lo>>, which orders as the u32 values do.
Overflows(w) == w[2] < w[1]
Width(w) == <<IF Overflows(w) THEN 1 ELSE 0, w[2] - w[1]>>
WidthGt1(w) == Overflows(w) \/ w[2] - w[1] > 1
WidthIs2(w) == ~Overflows(w) /\ w[2] - w[1] = 2
WidthLeq(v, w) ==
    \/ Width(v)[1] < Width(w)[1]
    \/ Width(v)[1] = Width(w)[1] /\ Width(v)[2] <= Width(w)[2]

\* .filter(up - lo > 1).sorted_unstable_by(reverse width): every order of the
\* kept windows with the widths descending (equal widths in any order)
SortedGaps(g) ==
    LET ws   == Windows(g)
        kept == {k \in DOMAIN ws : WidthGt1(ws[k])}
        n    == Cardinality(kept)
    IN  {[j \in 1..n |-> ws[p[j]]] :
            p \in {q \in [1..n -> kept] :
                     /\ \A a, b \in 1..n : a # b => q[a] # q[b]
                     /\ \A a \in 1..n : a < n => WidthLeq(ws[q[a + 1]], ws[q[a]])}}

Take(s, n) == IF Len(s) <= n THEN s ELSE SubSeq(s, 1, n)
Rev(s) == [k \in 1..Len(s) |-> s[Len(s) + 1 - k]]

\* The candidates .map() can produce for one window; the empty set is the
\* panic of sample_single on an empty range
Candidates(g, w) ==
    IF WidthIs2(w) THEN {w[1] + 1}
    ELSE IF g.is_random THEN (w[1] + 1) .. (w[2] - 1)
    ELSE {(w[2] + w[1]) \div 2}

\* A call that panicked, and one that returned
Panic == [panic |-> TRUE]
Ret(v) == [panic |-> FALSE, val |-> v]

\* PartitionIdGenerator::generate: the caches it can build; a panic when a
\* subtraction overflows under debug assertions or a sample range is empty
generate(g, debug) ==
    IF debug /\ \E k \in DOMAIN Windows(g) : Overflows(Windows(g)[k])
    THEN {Panic}
    ELSE UNION {
            LET gaps == Rev(Take(s, g.max_pregen_size))
            IN  IF \E k \in DOMAIN gaps : Candidates(g, gaps[k]) = {}
                THEN {Panic}
                ELSE {Ret(c) :
                        c \in {d \in [DOMAIN gaps -> UNION {Candidates(g, gaps[k]) : k \in DOMAIN gaps}] :
                                 \A k \in DOMAIN gaps : d[k] \in Candidates(g, gaps[k])}}
            : s \in SortedGaps(g)}

\* PartitionIdGenerator::new: a panic, Ret(None) for Err, or Ret(Some(g)) for
\* each generator it can build
PartitionIdGenerator_new(min_s, max_s, is_random, max_pregen_size, present_values) ==
    LET min == b36_to(min_s)
        max == b36_to(max_s)
        size == IF max_pregen_size = 0 THEN USIZE_MAX ELSE max_pregen_size
    IN  IF min = None \/ max = None THEN {Ret(None)}
        ELSE IF Unwrap(min) = Unwrap(max) THEN {Ret(None)}
        ELSE IF present_values # None
        THEN {Ret(Some([min |-> Unwrap(min), max |-> Unwrap(max), is_random |-> is_random,
               numbers |-> DecodePresent(Unwrap(present_values)), cache |-> << >>,
               max_pregen_size |-> size]))}
        ELSE IF Range(Unwrap(min), Unwrap(max)) = {} THEN {Panic}
        ELSE {Ret(Some([min |-> Unwrap(min), max |-> Unwrap(max), is_random |-> is_random,
               numbers |-> {first_id}, cache |-> <<first_id>>,
               max_pregen_size |-> size])) : first_id \in Range(Unwrap(min), Unwrap(max))}

\* cache.pop() and the encoding of what it popped
PopCache(g) ==
    Ret(<<Some(radix_36(g.cache[Len(g.cache)])),
          [g EXCEPT !.cache = SubSeq(g.cache, 1, Len(g.cache) - 1)]>>)

\* PartitionIdGenerator::get: a panic, or Ret(<<returned value, generator
\* afterwards>>)
PartitionIdGenerator_get(g, debug) ==
    IF g.cache # << >> THEN {PopCache(g)}
    ELSE {IF c.panic THEN Panic
          ELSE IF c.val = << >> THEN Ret(<<None, g>>)
          ELSE PopCache([g EXCEPT !.cache = c.val,
                                  !.numbers = g.numbers \cup {c.val[k] : k \in DOMAIN c.val}])
          : c \in generate(g, debug)}

\* PartitionIdGenerator::remove: <<returned bool, numbers afterwards>>
PartitionIdGenerator_remove(g, val) ==
    LET id == b36_to(val)
    IN  IF id = None THEN <<FALSE, g.numbers>>
        ELSE <<Unwrap(id) \in g.numbers, g.numbers \ {Unwrap(id)}>>

(***************************************************************************)
(* SpecGen: one generator, constructed by new() and then driven by any     *)
(* sequence of get() and remove() calls                                    *)
(***************************************************************************)
\* The id strings of the model, named by their text: S_15 is "15"
S_t  == <<29>>
S_u  == <<30>>
S_v  == <<31>>
S_w  == <<32>>
S_x  == <<33>>
S_y  == <<34>>
S_z  == <<35>>
S_10 == <<1, 0>>
S_11 == <<1, 1>>
S_15 == <<1, 5>>
S_16 == <<1, 6>>
S_96 == <<9, 6>>
S_97 == <<9, 7>>
S_aa == <<10, 10>>
S_ac == <<10, 12>>
\* a string with a character outside the alphabet
S_bad == <<NonDigit, 32>>

\* <<min, max>> handed to new(): "10".."15", "u".."y", "z".."15", and the
\* empty ranges "x".."x" and "y".."w"
GenBounds == {<<S_10, S_15>>, <<S_u, S_y>>, <<S_z, S_15>>, <<S_x, S_x>>, <<S_y, S_w>>}

\* present_values handed to new(): none, ids inside the ranges, an id below
\* them, an id above them with a malformed name
PresentChoices ==
    {None, Some({S_10}), Some({S_x, S_v}), Some({S_t}), Some({S_16, S_bad})}

\* max_iter handed to RandomIdGenerator::new
MaxIterChoices == {None, Some(1), Some(2)}

\* max_pregen_size handed to PartitionIdGenerator::new
PregenChoices == {0, 2}

GenArgs ==
    [strategy : {"random"}, bounds : GenBounds, max_iter : MaxIterChoices,
     is_random : {FALSE}, max_pregen_size : {0}, present : PresentChoices]
    \cup
    [strategy : {"partition"}, bounds : GenBounds, max_iter : {None},
     is_random : BOOLEAN, max_pregen_size : PregenChoices, present : PresentChoices]

NoRandomGen == [min |-> 0, max |-> 0, max_iter |-> None, set |-> {}]
NoPartitionGen ==
    [min |-> 0, max |-> 0, is_random |-> FALSE, numbers |-> {}, cache |-> << >>,
     max_pregen_size |-> 0]
NoCall == [op |-> "none", arg |-> << >>, ret |-> None, before |-> {}, seen |-> {},
           was_issued |-> FALSE, drawn |-> << >>]

\* The live-ID set of the generator under test
LiveSet == IF gargs.strategy = "random" THEN rgen.set ELSE pgen.numbers

GenInit ==
    /\ gpc = "new"
    /\ gargs \in GenArgs
    /\ debug_assertions \in BOOLEAN
    /\ rgen = NoRandomGen
    /\ pgen = NoPartitionGen
    /\ glast = NoCall
    /\ returned = {}
    /\ issued = {}
    /\ removed = FALSE

\* RandomIdGenerator::new / PartitionIdGenerator::new
GenNew ==
    /\ gpc = "new"
    /\ IF gargs.strategy = "random"
       THEN LET r == RandomIdGenerator_new(gargs.bounds[1], gargs.bounds[2],
                                           gargs.max_iter, gargs.present)
            IN  /\ gpc' = IF r = None THEN "err" ELSE "ready"
                /\ rgen' = IF r = None THEN rgen ELSE Unwrap(r)
                /\ pgen' = pgen
       ELSE \E r \in PartitionIdGenerator_new(gargs.bounds[1], gargs.bounds[2],
                         gargs.is_random, gargs.max_pregen_size, gargs.present) :
                /\ gpc' = IF r.panic THEN "panicked"
                          ELSE IF r.val = None THEN "err" ELSE "ready"
                /\ pgen' = IF ~r.panic /\ r.val # None THEN Unwrap(r.val) ELSE pgen
                /\ rgen' = rgen
    /\ glast' = [NoCall EXCEPT !.op = "new"]
    /\ UNCHANGED <<gargs, debug_assertions, returned, issued, removed, codecVars, srvVars>>

\* What a get() that returned ret leaves in the harness
AfterGet(ret, before, drawn) ==
    /\ glast' = [op |-> "get", arg |-> << >>, ret |-> ret, before |-> before,
                 seen |-> returned, was_issued |-> FALSE, drawn |-> drawn]
    /\ returned' = IF ret = None THEN returned ELSE returned \cup {Unwrap(ret)}
    /\ issued' = IF ret = None THEN issued ELSE issued \cup {Unwrap(ret)}
    /\ UNCHANGED <<gargs, debug_assertions, removed, codecVars, srvVars>>

\* IdGenerator::get
GenGet ==
    /\ gpc = "ready"
    /\ IF gargs.strategy = "random"
       THEN \E draws \in Draws(rgen) :
                LET o == RandomIdGenerator_get_on(rgen, draws)
                IN  /\ rgen' = [rgen EXCEPT !.set = o.set]
                    /\ pgen' = pgen
                    /\ gpc' = gpc
                    /\ AfterGet(o.ret, rgen.set, draws)
       ELSE \E o \in PartitionIdGenerator_get(pgen, debug_assertions) :
                IF o.panic
                THEN /\ gpc' = "panicked"
                     /\ glast' = [NoCall EXCEPT !.op = "get"]
                     /\ UNCHANGED <<gargs, rgen, pgen, debug_assertions, returned,
                                    issued, removed, codecVars, srvVars>>
                ELSE /\ pgen' = o.val[2]
                     /\ rgen' = rgen
                     /\ gpc' = gpc
                     /\ AfterGet(o.val[1], pgen.numbers, << >>)

\* The strings remove() is called with: every id get handed out and that is
\* still held, an id that was never handed out, and a malformed string
RemoveArgs == issued \cup {S_x, S_bad}

\* IdGenerator::remove
GenRemove ==
    /\ gpc = "ready"
    /\ \E val \in RemoveArgs :
        /\ IF gargs.strategy = "random"
           THEN LET o == RandomIdGenerator_remove(rgen, val)
                IN  /\ rgen' = [rgen EXCEPT !.set = o[2]]
                    /\ pgen' = pgen
                    /\ glast' = [op |-> "remove", arg |-> val, ret |-> o[1],
                                 before |-> rgen.set, seen |-> returned,
                                 was_issued |-> val \in issued, drawn |-> << >>]
           ELSE LET o == PartitionIdGenerator_remove(pgen, val)
                IN  /\ pgen' = [pgen EXCEPT !.numbers = o[2]]
                    /\ rgen' = rgen
                    /\ glast' = [op |-> "remove", arg |-> val, ret |-> o[1],
                                 before |-> pgen.numbers, seen |-> returned,
                                 was_issued |-> val \in issued, drawn |-> << >>]
        /\ issued' = issued \ {val}
        /\ removed' = TRUE
        /\ UNCHANGED <<gpc, gargs, debug_assertions, returned, codecVars, srvVars>>

GenNext == GenNew \/ GenGet \/ GenRemove

(***************************************************************************)
(* SpecCodec: test_b36_conversion, for every i in 0..MaxCodecInt           *)
(***************************************************************************)
CodecInit ==
    /\ cpc = "int"
    /\ ci \in 0..MaxCodecInt
    /\ cs = << >>
    /\ cd = None

Encode ==
    /\ cpc = "int"
    /\ cs' = radix_36(ci)
    /\ cpc' = "encoded"
    /\ UNCHANGED <<ci, cd, genVars, srvVars>>

Decode ==
    /\ cpc = "encoded"
    /\ cd' = b36_to(cs)
    /\ cpc' = "decoded"
    /\ UNCHANGED <<ci, cs, genVars, srvVars>>

CodecNext == Encode \/ Decode

(***************************************************************************)
(* Spec: the server.  main reconciles paste_dir, builds the generator and  *)
(* spawns the workers; paste_worker handles one connection at a time;      *)
(* cleanup_worker deletes expired pastes.                                  *)
(***************************************************************************)
\* args.workers, by tag
Workers == {"w1", "w2"}

\* 1024: bytes per kiB, and the slack of a PROXY header
KiB == 1024
ProxySlack == 1024
\* Some(256): the retry cap main gives the generator
MainMaxIter == 256

\* args.paste_dir: "/var"
PasteDir == <<NonDigit, 31, 10, 27>>

\* Path::join
Join(dir, name) == dir \o <<NonDigit>> \o name

\* The last component of a path
RECURSIVE file_name(_)
file_name(path) ==
    IF path = << >> \/ path[Len(path)] = NonDigit THEN << >>
    ELSE file_name(SubSeq(path, 1, Len(path) - 1)) \o <<path[Len(path)]>>

\* <<args.id_range_lower, args.id_range_upper>>: "z".."15" and "aa".."ac"
ArgBounds == {<<S_z, S_15>>, <<S_aa, S_ac>>}

\* The directories paste_dir can hold when the server starts
InitialDirs == {{}, {S_10, S_aa}}

\* Every name an entry of paste_dir has in the model
Names == {S_w, S_x, S_y, S_z, S_10, S_96, S_97, S_aa}

\* The runs of the server: its arguments, the directories paste_dir holds at
\* the start, and the number of connections.  "w".."15" is a range wide
\* enough to hold "w" and "10" together, run without PROXY mode from an
\* empty paste_dir and with one connection more.
Runs ==
    [args : [bounds : ArgBounds, talk_proxy : BOOLEAN,
             no_clean_pastedir_on_start : BOOLEAN],
     dirs : InitialDirs, clients : {MaxConns}]
    \cup
    [args : [bounds : {<<S_w, S_15>>}, talk_proxy : {FALSE},
             no_clean_pastedir_on_start : {FALSE}],
     dirs : {{}}, clients : {MaxConns + 1}]

Absent == [kind |-> "absent", len |-> 0, conn |-> 0, mtime |-> 0]
EmptyDir == [kind |-> "dir", len |-> 0, conn |-> 0, mtime |-> 0]
\* <name>/index.txt holding len bytes, written at mtime for connection conn
\* (connection 0: by an earlier run of the server)
Paste(len, conn, mtime) == [kind |-> "paste", len |-> len, conn |-> conn, mtime |-> mtime]

\* paste_id_regex.is_match(name), with the pattern [a-z0-9]{L,} for
\* L = id_range_lower.len(): the names of the model hold alphabet characters
\* only, so a name matches when it has at least L of them
paste_id_regex_is_match(name, id_range_lower) == Len(name) >= Len(id_range_lower)

paste_limit == PasteLenKib * KiB
slack == (IF args.talk_proxy THEN ProxySlack ELSE 0) + 1

\* What a client sends: the length of its PROXY header (0: none, or not a
\* header) and of its payload
HeaderLens == {0, 28, ProxySlack + 1}
PayloadLens == {paste_limit, paste_limit + 1, paste_limit + ProxySlack + 6}

Min(a, b) == IF a <= b THEN a ELSE b

\* proxy_protocol::parse on a buffer of msg_size bytes whose sender put a
\* header of hdr bytes in front: Some(bytes consumed) when the whole header
\* is in the buffer, None otherwise
proxy_protocol_parse(hdr, msg_size) ==
    IF hdr > 0 /\ hdr <= msg_size THEN Some(hdr) ELSE None

NoJob == [deadline |-> 0, path |-> << >>]
\* A worker between connections.  hdr and pay are the bytes the client of
\* the connection sent (oversize: a payload above paste_limit; hdr is kept
\* up to the size check only), payload_len
\* the length of buf[header_len..], pre_set the generator's set when
\* gen.get() was called, dir_existed whether <paste_dir>/<paste_id> held a
\* paste when gen.get() returned.
IdleWorker ==
    [pc |-> "recv", conn |-> 0, hdr |-> 0, pay |-> 0, oversize |-> FALSE,
     payload_len |-> 0, paste_id |-> << >>, pre_set |-> {}, dir_existed |-> FALSE,
     replies |-> << >>, outcome |-> "none"]
IdleCleanup == [pc |-> "recv", job |-> NoJob, ret |-> FALSE, err |-> FALSE]

\* A reply that is never written
reply_lost(r, message) == r

\* A reply that is the exceeded-limit message whatever the worker meant to say
reply_exceeded(r, message) == [r EXCEPT !.replies = Append(@, "exceeded")]

\* reply(&mut stream, message)
reply(r, message) == [r EXCEPT !.replies = Append(@, message)]

\* shutdown(&mut stream, ..): the connection ended with outcome
shutdown(r, outcome) ==
    [IdleWorker EXCEPT !.pc = "closed", !.conn = r.conn, !.replies = r.replies,
                       !.outcome = outcome, !.oversize = r.oversize]

\* The state main() starts in, for one of the runs
InitOf(runs) ==
    /\ main_pc = "start"
    /\ \E run \in runs :
          /\ args = run.args
          /\ clients = run.clients
          /\ fs = [n \in Names |-> IF n \in run.dirs THEN Paste(5, 0, 0) ELSE Absent]
    /\ ids = NoRandomGen
    /\ lock = "free"
    /\ rx_paste = << >>
    /\ accepted = 0
    /\ wk = [w \in Workers |-> IdleWorker]
    /\ tx_clean = << >>
    /\ cl = IdleCleanup
    /\ now = 0
    /\ cpc = "int"
    /\ ci = 0
    /\ cs = << >>
    /\ cd = None
    /\ gpc = "new"
    /\ gargs = [strategy |-> "random", bounds |-> <<S_10, S_15>>, max_iter |-> None,
                is_random |-> FALSE, max_pregen_size |-> 0, present |-> None]
    /\ debug_assertions = FALSE
    /\ rgen = NoRandomGen
    /\ pgen = NoPartitionGen
    /\ glast = NoCall
    /\ returned = {}
    /\ issued = {}
    /\ removed = FALSE

Init == InitOf(Runs)

\* main, up to spawning the threads: scan paste_dir, purge or keep what
\* matches, build the generator
main ==
    /\ main_pc = "start"
    /\ LET found  == {n \in Names : fs[n].kind # "absent"
                                     /\ paste_id_regex_is_match(n, args.bounds[1])}
           id_set == IF found = {} THEN None ELSE Some(found)
           g      == RandomIdGenerator_new(args.bounds[1], args.bounds[2],
                                           Some(MainMaxIter), id_set)
       IN  /\ IF args.no_clean_pastedir_on_start
              THEN fs' = fs
              ELSE \E undeleted \in SUBSET found :
                      fs' = [n \in Names |->
                                IF n \in found \ undeleted THEN Absent ELSE fs[n]]
           /\ IF g = None
              THEN main_pc' = "exit" /\ ids' = ids
              ELSE main_pc' = "serving" /\ ids' = Unwrap(g)
    /\ UNCHANGED <<args, clients, lock, rx_paste, accepted, wk, tx_clean, cl, now,
                   codecVars, genVars>>

\* main's accept loop: socket.accept() and tx_paste.send(socket)
accept ==
    /\ main_pc = "serving"
    /\ accepted < clients
    /\ accepted' = accepted + 1
    /\ rx_paste' = Append(rx_paste, accepted + 1)
    /\ UNCHANGED <<main_pc, args, clients, fs, ids, lock, wk, tx_clean, cl, now,
                   codecVars, genVars>>

\* Time passes
tick ==
    /\ main_pc = "serving"
    /\ now < MaxTime
    /\ now' = now + 1
    /\ UNCHANGED <<main_pc, args, clients, fs, ids, lock, rx_paste, accepted, wk, tx_clean, cl,
                   codecVars, genVars>>

\* paste_worker, from read_to_end to the utf-8 check: what the worker makes
\* of a client that sent hdr + pay bytes
read_connection(r, hdr, pay, read_ok, utf8_ok) ==
    LET msg_size    == Min(hdr + pay, paste_limit + slack)
        header      == proxy_protocol_parse(hdr, msg_size)
        header_len  == IF args.talk_proxy THEN Unwrap(header) ELSE 0
        payload_len == msg_size - header_len
        c           == [r EXCEPT !.hdr = hdr, !.pay = pay, !.oversize = pay > paste_limit]
    IN  IF ~read_ok THEN shutdown(c, "read_error")
        ELSE IF args.talk_proxy /\ header = None THEN shutdown(c, "proxy_error")
        ELSE IF payload_len > paste_limit
             THEN shutdown(reply(c, "exceeded"), "exceeded")
        ELSE IF ~utf8_ok
             THEN shutdown(reply(c, "invalid_utf8"), "invalid_utf8")
        ELSE [c EXCEPT !.pc = "lock", !.hdr = 0, !.payload_len = payload_len]

\* paste_worker: rx_paste.recv(), then the read, the PROXY header, the size
\* check and the utf-8 check
paste_worker_read(w) ==
    /\ main_pc = "serving"
    /\ wk[w].pc = "recv"
    /\ rx_paste # << >>
    /\ rx_paste' = Tail(rx_paste)
    /\ \E hdr \in (IF args.talk_proxy THEN HeaderLens ELSE {0}), pay \in PayloadLens,
          read_ok \in BOOLEAN, utf8_ok \in BOOLEAN :
          wk' = [wk EXCEPT ![w] =
                    read_connection([IdleWorker EXCEPT !.conn = Head(rx_paste)],
                                    hdr, pay, read_ok, utf8_ok)]
    /\ UNCHANGED <<main_pc, args, clients, fs, ids, lock, accepted, tx_clean, cl, now,
                   codecVars, genVars>>

\* paste_worker: gen.lock() and gen.get(), and the reply when it gave None
paste_worker_get(w) ==
    /\ wk[w].pc = "lock"
    /\ lock = "free"
    /\ \E o \in RandomIdGenerator_get(ids) :
          IF o[1] = None
          THEN /\ wk' = [wk EXCEPT ![w] =
                            shutdown(reply(wk[w], "exhausted"), "exhausted")]
               /\ lock' = "free"
               /\ ids' = ids
          ELSE /\ wk' = [wk EXCEPT ![w] =
                            [wk[w] EXCEPT !.pc = "persist",
                                          !.paste_id = Unwrap(o[1]),
                                          !.pre_set = ids.set,
                                          !.dir_existed = (fs[Unwrap(o[1])].kind = "paste")]]
               /\ lock' = w
               /\ ids' = [ids EXCEPT !.set = o[2]]
    /\ UNCHANGED <<main_pc, args, clients, fs, rx_paste, accepted, tx_clean, cl, now,
                   codecVars, genVars>>

\* A send that delivers the job twice
send_twice(q, job) == q \o <<job, job>>

\* A send that puts the job at the head of the queue
send_front(q, job) == <<job>> \o q

\* tx_clean.send(job): the job joins the end of the queue
send(q, job) == Append(q, job)

\* What fs::create_dir_all and fs::write can leave of <paste_dir>/<id> when
\* one of them fails: nothing new, or the directory without a whole index.txt
failed_write(entry) == {entry} \cup {EmptyDir}

\* paste_worker: create_dir_all, write, and tx_clean.send or gen.remove
paste_worker_persist(w) ==
    /\ wk[w].pc = "persist"
    /\ LET id == wk[w].paste_id
       IN  \/ /\ fs' = [fs EXCEPT ![id] = Paste(wk[w].payload_len, wk[w].conn, now)]
              /\ tx_clean' = send(tx_clean, [deadline |-> now + PasteExpirySec,
                                             path |-> Join(PasteDir, id)])
              /\ wk' = [wk EXCEPT ![w].pc = "saved"]
              /\ ids' = ids
           \/ /\ \E e \in failed_write(fs[id]) : fs' = [fs EXCEPT ![id] = e]
              /\ ids' = [ids EXCEPT !.set = RandomIdGenerator_remove(ids, id)[2]]
              /\ wk' = [wk EXCEPT ![w].pc = "failed"]
              /\ tx_clean' = tx_clean
    /\ UNCHANGED <<main_pc, args, clients, lock, rx_paste, accepted, cl, now, codecVars, genVars>>

\* paste_worker: drop(gen) and the reply with the paste's url
paste_worker_saved(w) ==
    /\ wk[w].pc = "saved"
    /\ lock' = "free"
    /\ wk' = [wk EXCEPT ![w] = shutdown(reply(wk[w], "url"), "success")]
    /\ UNCHANGED <<main_pc, args, clients, fs, ids, rx_paste, accepted, tx_clean, cl, now,
                   codecVars, genVars>>

\* A worker that replies after a failed write and keeps the lock as it
\* goes on to the next connection
paste_worker_failed_locked(w) ==
    /\ wk[w].pc = "failed"
    /\ wk' = [wk EXCEPT ![w] =
                 shutdown(reply(wk[w], "internal_error"), "persist_failed")]
    /\ UNCHANGED <<main_pc, args, clients, fs, ids, lock, rx_paste, accepted, tx_clean, cl,
                   now, codecVars, genVars>>

\* paste_worker: the reply after a failed write; continue drops the lock
paste_worker_failed(w) ==
    /\ wk[w].pc = "failed"
    /\ lock' = "free"
    /\ wk' = [wk EXCEPT ![w] =
                 shutdown(reply(wk[w], "internal_error"), "persist_failed")]
    /\ UNCHANGED <<main_pc, args, clients, fs, ids, rx_paste, accepted, tx_clean, cl, now,
                   codecVars, genVars>>

\* paste_worker: continue, or the end of the loop body
paste_worker_continue(w) ==
    /\ wk[w].pc = "closed"
    /\ wk' = [wk EXCEPT ![w] = IdleWorker]
    /\ UNCHANGED <<main_pc, args, clients, fs, ids, lock, rx_paste, accepted, tx_clean, cl, now,
                   codecVars, genVars>>

\* A cleanup thread that takes a job off the queue and forgets it
cleanup_worker_skip ==
    /\ cl.pc = "recv"
    /\ tx_clean # << >>
    /\ tx_clean' = Tail(tx_clean)
    /\ UNCHANGED <<main_pc, args, clients, fs, ids, lock, rx_paste, accepted, wk, cl, now,
                   codecVars, genVars>>

\* cleanup_worker: rx_cleanup.recv()
cleanup_worker_recv ==
    /\ cl.pc = "recv"
    /\ tx_clean # << >>
    /\ cl' = [pc |-> "sleep", job |-> Head(tx_clean), ret |-> FALSE, err |-> FALSE]
    /\ tx_clean' = Tail(tx_clean)
    /\ UNCHANGED <<main_pc, args, clients, fs, ids, lock, rx_paste, accepted, wk, now,
                   codecVars, genVars>>

\* cleanup_worker: the sleep is over, fs::remove_dir_all(&paste_path)
cleanup_worker_remove_dir ==
    /\ cl.pc = "sleep"
    /\ now >= cl.job.deadline
    /\ LET name == file_name(cl.job.path)
       IN  \/ /\ fs[name].kind # "absent"
              /\ fs' = [fs EXCEPT ![name] = Absent]
              /\ cl' = [cl EXCEPT !.pc = "lock"]
           \/ /\ fs' = fs
              /\ cl' = [cl EXCEPT !.pc = "recv", !.err = TRUE]
    /\ UNCHANGED <<main_pc, args, clients, ids, lock, rx_paste, accepted, wk, tx_clean, now,
                   codecVars, genVars>>

\* cleanup_worker: ids.lock() and
\* lock.remove(&paste_path.as_os_str().to_string_lossy())
cleanup_worker_remove ==
    /\ cl.pc = "lock"
    /\ lock = "free"
    /\ lock' = "cleanup"
    /\ LET o == RandomIdGenerator_remove(ids, cl.job.path)
       IN  /\ ids' = [ids EXCEPT !.set = o[2]]
           /\ cl' = [cl EXCEPT !.pc = "unlock", !.ret = o[1]]
    /\ UNCHANGED <<main_pc, args, clients, fs, rx_paste, accepted, wk, tx_clean, now,
                   codecVars, genVars>>

\* cleanup_worker: the guard goes out of scope
cleanup_worker_unlock ==
    /\ cl.pc = "unlock"
    /\ lock' = "free"
    /\ cl' = [cl EXCEPT !.pc = "recv"]
    /\ UNCHANGED <<main_pc, args, clients, fs, ids, rx_paste, accepted, wk, tx_clean, now,
                   codecVars, genVars>>

paste_worker(w) ==
    \/ paste_worker_read(w)
    \/ paste_worker_get(w)
    \/ paste_worker_persist(w)
    \/ paste_worker_saved(w)
    \/ paste_worker_failed(w)
    \/ paste_worker_continue(w)

cleanup_worker ==
    \/ cleanup_worker_recv
    \/ cleanup_worker_remove_dir
    \/ cleanup_worker_remove
    \/ cleanup_worker_unlock

Next ==
    \/ main
    \/ accept
    \/ tick
    \/ \E w \in Workers : paste_worker(w)
    \/ cleanup_worker

\* The server at rest, for the specifications that do not use it
ServerIdle ==
    /\ main_pc = "start"
    /\ args = [bounds |-> <<S_z, S_15>>, talk_proxy |-> FALSE,
               no_clean_pastedir_on_start |-> FALSE]
    /\ clients = 0
    /\ fs = [n \in Names |-> Absent]
    /\ ids = NoRandomGen
    /\ lock = "free"
    /\ rx_paste = << >>
    /\ accepted = 0
    /\ wk = [w \in Workers |-> IdleWorker]
    /\ tx_clean = << >>
    /\ cl = IdleCleanup
    /\ now = 0

\* The generator harness at rest, for the specifications that do not use it
GenIdle ==
    /\ gpc = "new"
    /\ gargs = [strategy |-> "random", bounds |-> <<S_10, S_15>>, max_iter |-> None,
                is_random |-> FALSE, max_pregen_size |-> 0, present |-> None]
    /\ debug_assertions = FALSE
    /\ rgen = NoRandomGen
    /\ pgen = NoPartitionGen
    /\ glast = NoCall
    /\ returned = {}
    /\ issued = {}
    /\ removed = FALSE

\* The codec harness at rest
CodecIdle ==
    /\ cpc = "int"
    /\ ci = 0
    /\ cs = << >>
    /\ cd = None

vars == <<codecVars, genVars, srvVars>>

SpecCodecInit == CodecInit /\ GenIdle /\ ServerIdle
SpecCodec == SpecCodecInit /\ [][CodecNext]_vars

SpecGenInit == GenInit /\ CodecIdle /\ ServerIdle
SpecGen == SpecGenInit /\ [][GenNext]_vars

Spec == Init /\ [][Next]_vars

\* The server with its threads scheduled fairly: the clock advances, the
\* cleanup thread and every worker thread take the step they are ready for.
\* The runs are those of the range "z".."15" without PROXY mode.
LiveRuns == {run \in Runs : run.args.bounds = <<S_z, S_15>> /\ ~run.args.talk_proxy}
LiveInit == InitOf(LiveRuns)
SpecLive ==
    /\ LiveInit
    /\ [][Next]_vars
    /\ WF_vars(tick)
    /\ WF_vars(cleanup_worker)
    /\ \A w \in Workers : WF_vars(paste_worker(w))

(***************************************************************************)
(* The claims                                                              *)
(***************************************************************************)
\* The integer an id string denotes in base 36: digit k (from the least
\* significant) weighs 36^k
RECURSIVE Base36Value(_)
Base36Value(s) ==
    IF s = << >> THEN 0
    ELSE Base36Value(SubSeq(s, 1, Len(s) - 1)) * 36 + s[Len(s)]

\* The ids in the server's live set, as the strings get() returns for them
LiveIds == {radix_36(i) : i \in ids.set}

\* C1: a worker is never handed an id whose directory under paste_dir holds
\* a stored paste at the moment gen.get() returns it.
C1_NoCollision == \A w \in Workers : ~wk[w].dir_existed

\* C2: with no remove() since construction, an id get() returns differs from
\* every id get() returned before and from every id passed as present.
C2_DistinctIds ==
    (glast.op = "get" /\ glast.ret # None /\ ~removed)
        => /\ Unwrap(glast.ret) \notin glast.seen
           /\ gargs.present # None => Unwrap(glast.ret) \notin Unwrap(gargs.present)

\* C3: decoding the base-36 encoding of i gives i back.
C3_RoundTrip == cpc = "decoded" => cd = Some(ci)

\* C4: remove(s), for an id s that get() returned and that is still live,
\* returns true and takes exactly the integer of s out of the live set.
C4_ReleaseInverse ==
    (glast.op = "remove" /\ glast.was_issued /\ Base36Value(glast.arg) \in glast.before)
        => /\ glast.ret = TRUE
           /\ LiveSet = glast.before \ {Base36Value(glast.arg)}

\* C5: after a worker handled a failed create_dir_all or write, the live set
\* is what it was before gen.get(), and the client gets the internal-error
\* reply.
C5_NoLeakOnWriteFailure ==
    \A w \in Workers :
        /\ wk[w].pc = "failed" => ids.set = wk[w].pre_set
        /\ wk[w].outcome = "persist_failed" => wk[w].replies = <<"internal_error">>

\* C6: once the cleanup worker deleted <paste_dir>/<id> and made its remove
\* call, <id> is not in the live set.
C6_ExpiryReleases == cl.pc = "unlock" => file_name(cl.job.path) \notin LiveIds

\* C7: once main built the generator, every id of the live set names a
\* directory that exists under paste_dir, or is the id a worker is about to
\* write, or the id of the directory the cleanup worker just deleted and is
\* about to release.
C7_LiveIdsOnDisk ==
    main_pc = "serving" =>
        \A id \in LiveIds :
            \/ id \in Names /\ fs[id].kind # "absent"
            \/ \E w \in Workers : wk[w].pc = "persist" /\ wk[w].paste_id = id
            \/ cl.pc = "lock" /\ file_name(cl.job.path) = id

\* C8: an id RandomIdGenerator::get returns, read in base 36, is at least
\* the lower bound string read in base 36 and below the upper bound string
\* read in base 36.
C8_IdInConfiguredRange ==
    (gargs.strategy = "random" /\ glast.op = "get" /\ glast.ret # None)
        => /\ Base36Value(gargs.bounds[1]) <= Base36Value(Unwrap(glast.ret))
           /\ Base36Value(Unwrap(glast.ret)) < Base36Value(gargs.bounds[2])

\* C9: a payload above paste_limit never passes the size check and is
\* answered with the exceeded-limit message; a payload within the limit is
\* never answered with it and is handed on in full.
C9_SizeLimit ==
    \A w \in Workers :
        /\ wk[w].pc \in {"lock", "persist", "saved", "failed"}
              => ~wk[w].oversize /\ wk[w].payload_len = wk[w].pay
        /\ (wk[w].pc = "closed" /\ wk[w].oversize)
              => wk[w].outcome \in {"exceeded", "read_error", "proxy_error"}
        /\ wk[w].outcome = "exceeded" => wk[w].oversize

\* C10, as claimed: every connection a worker closed got exactly one reply.
C10_ExactlyOneReply ==
    \A w \in Workers : wk[w].pc = "closed" => Len(wk[w].replies) = 1

\* The reply each way of ending a connection writes
RepliesOf(outcome) ==
    CASE outcome = "read_error"     -> << >>
      [] outcome = "proxy_error"    -> << >>
      [] outcome = "exceeded"       -> <<"exceeded">>
      [] outcome = "invalid_utf8"   -> <<"invalid_utf8">>
      [] outcome = "exhausted"      -> <<"exhausted">>
      [] outcome = "persist_failed" -> <<"internal_error">>
      [] outcome = "success"        -> <<"url">>
      [] OTHER                      -> << >>

\* C10, amended: a connection gets at most one reply; a closed connection
\* got exactly the reply of its outcome, which is none after a read error or
\* a PROXY parse failure; nothing is written before the connection ends.
C10_AtMostOneReply ==
    \A w \in Workers :
        /\ Len(wk[w].replies) <= 1
        /\ wk[w].pc = "closed" => wk[w].replies = RepliesOf(wk[w].outcome)
        /\ wk[w].pc # "closed" => wk[w].replies = << >>

\* Both workers closed a connection: one stored a paste and replied with its
\* url, the other hit a read error and replied nothing.
C10_Witness ==
    /\ wk["w1"].pc = "closed" /\ wk["w1"].outcome = "success"
    /\ wk["w1"].replies = <<"url">>
    /\ wk["w2"].pc = "closed" /\ wk["w2"].outcome = "read_error"
    /\ wk["w2"].replies = << >>

\* C11: a paste a worker of this run stored stays as it was written (its
\* directory, its index.txt, its payload) until its own deadline, the time of
\* the write plus paste_expiry_sec: no step changes or deletes it earlier.
C11_NoEarlyDeletion ==
    [][\A n \in Names :
          (fs[n].kind = "paste" /\ fs[n].conn > 0 /\ fs'[n] # fs[n])
              => now >= fs[n].mtime + PasteExpirySec]_vars

\* C12: in a run where no fs::remove_dir_all of the cleanup thread fails, a
\* paste a worker stored whose deadline lies within the clock's range is
\* eventually deleted: its directory becomes absent.
C12_EventualExpiry ==
    \/ <>cl.err
    \/ \A n \in Names :
          (fs[n].kind = "paste" /\ fs[n].conn > 0 /\ fs[n].mtime + PasteExpirySec <= MaxTime)
              ~> (fs[n].kind = "absent")

\* The cleanup thread has just deleted the directory of a job whose deadline
\* has passed, while another job waits in the queue behind it
C12_Witness ==
    /\ cl.pc = "lock"
    /\ ~cl.err
    /\ now >= cl.job.deadline
    /\ fs[file_name(cl.job.path)].kind = "absent"
    /\ tx_clean # << >>

\* C13: started with --no-clean-pastedir-on-start, main deletes nothing, and
\* while a directory found at the start still holds the paste of the earlier
\* run, its name is in the live set and no worker is handed it.
C13_NoCleanupKeepsIds ==
    /\ [][(main_pc = "start" /\ args.no_clean_pastedir_on_start) => fs' = fs]_vars
    /\ [](  (main_pc = "serving" /\ args.no_clean_pastedir_on_start)
          => \A n \in Names :
                (fs[n].kind = "paste" /\ fs[n].conn = 0)
                    => /\ n \in LiveIds
                       /\ \A w \in Workers : wk[w].paste_id # n)

\* C14: the step in which a worker writes the exceeded-limit reply or the
\* invalid-utf-8 reply starts where the worker received the connection (no
\* gen.get() was made for it) and leaves the live set, the directories of
\* paste_dir, the queue of expiry jobs and the generator's mutex as they were.
C14_RejectedNoEffect ==
    [][\A w \in Workers :
          (/\ wk'[w].replies # wk[w].replies
           /\ wk'[w].replies \in {<<"exceeded">>, <<"invalid_utf8">>})
              => /\ wk[w].pc = "recv"
                 /\ ids' = ids
                 /\ fs' = fs
                 /\ tx_clean' = tx_clean
                 /\ lock' = lock]_vars

\* Two connections were rejected, one for its size and one for its encoding,
\* and the server holds no id, no directory and no job
C14_Witness ==
    /\ wk["w1"].pc = "closed" /\ wk["w1"].replies = <<"exceeded">>
    /\ wk["w2"].pc = "closed" /\ wk["w2"].replies = <<"invalid_utf8">>
    /\ ids.set = {}
    /\ tx_clean = << >>
    /\ \A n \in Names : fs[n].kind = "absent"

\* C15: the jobs of the expiry queue are in deadline order, whichever workers
\* sent them: a job never stands behind one with a later deadline, and the
\* job the cleanup thread took has no later deadline than a job still queued.
C15_QueueInDeadlineOrder ==
    /\ \A i, j \in DOMAIN tx_clean :
          i < j => tx_clean[i].deadline <= tx_clean[j].deadline
    /\ \A j \in DOMAIN tx_clean : cl.job.deadline <= tx_clean[j].deadline

\* Two workers sent their jobs at different times, and the cleanup thread
\* sleeps on an earlier one
C15_Witness ==
    /\ Len(tx_clean) = 2
    /\ tx_clean[1].deadline < tx_clean[2].deadline
    /\ tx_clean[1].path # tx_clean[2].path
    /\ cl.pc = "sleep"

\* C16: a worker whose write succeeded leaves index.txt on disk and adds
\* exactly one job, for that directory, to the end of the queue; the queue
\* grows in no other step (not on a failed write, not on a rejection); a job
\* leaves the queue only from its head, as the cleanup thread takes it, and
\* the cleanup thread takes a new job only from there.
C16_JobLifecycle ==
    [][/\ \A w \in Workers :
            (wk[w].pc = "persist" /\ wk'[w].pc = "saved")
                => /\ fs'[wk[w].paste_id] = Paste(wk[w].payload_len, wk[w].conn, now)
                   /\ tx_clean' = Append(tx_clean,
                                         [deadline |-> now + PasteExpirySec,
                                          path |-> Join(PasteDir, wk[w].paste_id)])
       /\ tx_clean' # tx_clean
            => \/ \E w \in Workers : wk[w].pc = "persist" /\ wk'[w].pc = "saved"
               \/ /\ cl.pc = "recv"
                  /\ tx_clean # << >>
                  /\ tx_clean' = Tail(tx_clean)
                  /\ cl'.job = Head(tx_clean)
                  /\ cl'.pc = "sleep"
       /\ cl'.job # cl.job => tx_clean # << >> /\ tx_clean' = Tail(tx_clean)
       /\ cl.pc # "recv" => cl'.job = cl.job]_vars

\* The cleanup thread took the only job, its paste is on disk, and a worker
\* whose write failed has sent none
C16_Witness ==
    /\ cl.pc = "sleep"
    /\ tx_clean = << >>
    /\ fs[file_name(cl.job.path)].kind = "paste"
    /\ \E w \in Workers : wk[w].pc = "failed"

\* C17: started without --no-clean-pastedir-on-start, main gives the generator
\* none of the names it found: the live set is empty when the threads start.
C17_PurgedIdsNotLive ==
    [][(main_pc = "start" /\ main_pc' = "serving" /\ ~args.no_clean_pastedir_on_start)
          => ids'.set = {}]_vars

\* A step of the PartitionIdGenerator that is a get() which returned
PartitionGetStep ==
    /\ gargs.strategy = "partition"
    /\ gpc = "ready" /\ gpc' = "ready"
    /\ glast'.op = "get"

\* Whether [min, live..., max] has a gap of width above 1
HasGap(g) == \E k \in DOMAIN Windows(g) : Windows(g)[k][2] - Windows(g)[k][1] > 1

\* A generator whose range is not empty and whose live ids all lie in it
InRange(g) == g.min < g.max /\ g.numbers \subseteq Range(g.min, g.max)

\* C18: for a generator with its live ids in [min, max), a get() on an empty
\* cache returns None exactly when no gap of width above 1 exists, and then
\* every integer of [min, max) is live; a get() returns an id while an
\* integer of [min, max) is free.
C18_ExhaustionOnlyWhenFull ==
    [][(PartitionGetStep /\ InRange(pgen))
          => /\ pgen.cache = << >> => (glast'.ret = None <=> ~HasGap(pgen))
             /\ glast'.ret = None => Range(pgen.min, pgen.max) \subseteq pgen.numbers
             /\ Range(pgen.min, pgen.max) \ pgen.numbers # {} => glast'.ret # None]_vars

\* The integers in the cache of the PartitionIdGenerator
CacheIds == {pgen.cache[k] : k \in DOMAIN pgen.cache}

\* C19: after new() and any get() and remove() calls, every id in the cache
\* is in the live set, and the id a get() returns is in the live set as it
\* is returned.
C19_CacheSubsetOfLive ==
    /\ []((gargs.strategy = "partition" /\ gpc = "ready") => CacheIds \subseteq pgen.numbers)
    /\ [][(PartitionGetStep /\ glast'.ret # None)
              => Base36Value(Unwrap(glast'.ret)) \in pgen'.numbers]_vars

\* A get() of the PartitionIdGenerator that refilled the empty cache, and
\* the cache as the refill built it (the id returned was popped from its end)
RefillStep == PartitionGetStep /\ pgen.cache = << >> /\ glast'.ret # None
Refilled == pgen'.cache \o <<Base36Value(Unwrap(glast'.ret))>>

\* The gaps of width above 1 in [min, live..., max]
Gaps(g) == {Windows(g)[k] : k \in {j \in DOMAIN Windows(g) :
                                     Windows(g)[j][2] - Windows(g)[j][1] > 1}}

\* new() was given min < max and present ids inside [min, max), read in base 36
LegitArgs ==
    /\ Base36Value(gargs.bounds[1]) < Base36Value(gargs.bounds[2])
    /\ gargs.present # None =>
          \A v \in Unwrap(gargs.present) :
              /\ \A i \in DOMAIN v : v[i] \in 0..35
              /\ Base36Value(gargs.bounds[1]) <= Base36Value(v)
              /\ Base36Value(v) < Base36Value(gargs.bounds[2])

\* The refilled cache holds one candidate strictly inside each of the
\* min(max_pregen_size, number of gaps) widest gaps, in ascending gap width
WidestFirst(c, g) ==
    /\ Len(c) = Min(g.max_pregen_size, Cardinality(Gaps(g)))
    /\ \E sel \in [1..Len(c) -> Gaps(g)] :
          /\ \A k, j \in 1..Len(c) : k # j => sel[k] # sel[j]
          /\ \A k \in 1..Len(c) : sel[k][1] < c[k] /\ c[k] < sel[k][2]
          /\ \A k, j \in 1..Len(c) :
                k < j => sel[k][2] - sel[k][1] <= sel[j][2] - sel[j][1]
          /\ \A w \in Gaps(g) \ {sel[k] : k \in 1..Len(c)} :
                \A k \in 1..Len(c) : w[2] - w[1] <= sel[k][2] - sel[k][1]

\* C20: for a generator built with min < max and present ids inside
\* [min, max), a refill fills the cache with one candidate strictly inside
\* each of the at most max_pregen_size widest gaps, and get() hands the cache
\* out from its end: the candidate of the widest gap first.
C20_PrefetchWidestFirst ==
    /\ [][(RefillStep /\ LegitArgs) => WidestFirst(Refilled, pgen)]_vars
    /\ [][(PartitionGetStep /\ pgen.cache # << >>)
              => /\ glast'.ret = Some(radix_36(pgen.cache[Len(pgen.cache)]))
                 /\ pgen'.cache = SubSeq(pgen.cache, 1, Len(pgen.cache) - 1)]_vars

\* The same for a generator whose live ids all lie in its range
C20_InRange ==
    [][(RefillStep /\ InRange(pgen)) => WidestFirst(Refilled, pgen)]_vars

\* Both bounds handed to new() decode, and decoded min >= decoded max
DecodedRangeEmpty ==
    /\ b36_to(gargs.bounds[1]) # None /\ b36_to(gargs.bounds[2]) # None
    /\ Unwrap(b36_to(gargs.bounds[1])) >= Unwrap(b36_to(gargs.bounds[2]))

\* C21: for both strategies, with or without present values, new(min, max)
\* returns an error whenever decoded min >= decoded max: it does not panic
\* and it constructs no generator.
C21_EmptyRangeRejected ==
    (gpc # "new" /\ DecodedRangeEmpty) => gpc = "err"

\* The same for RandomIdGenerator::new alone
C21_RandomRejects ==
    (gpc # "new" /\ gargs.strategy = "random" /\ DecodedRangeEmpty) => gpc = "err"

\* The last call was a get() of a RandomIdGenerator with a retry cap
CappedGet == gargs.strategy = "random" /\ glast.op = "get" /\ rgen.max_iter # None

\* The k-th integer that get() drew was live when get() was called
Collided(k) == glast.drawn[k] \in glast.before

\* C22: with a retry cap max_iter, get() ends on every sequence of draws.  It
\* returns None only after max_iter retries (the draws after the first) were
\* made and all collided with live ids, it returns the first drawn integer
\* that is not live, and when it returns None the live set is unchanged.
C22_BoundedRetry ==
    /\ (gargs.strategy = "random" /\ gpc = "ready" /\ rgen.max_iter # None)
          => \A d \in [1..(Unwrap(rgen.max_iter) + 1) -> Range(rgen.min, rgen.max)] :
                 RandomIdGenerator_get_on(rgen, d).used # 0
    /\ CappedGet =>
          /\ glast.ret = None =>
                /\ Len(glast.drawn) - 1 = Unwrap(rgen.max_iter)
                /\ \A k \in 2..Len(glast.drawn) : Collided(k)
                /\ rgen.set = glast.before
          /\ \A k \in DOMAIN glast.drawn :
                (~Collided(k) /\ \A j \in 1..(k - 1) : Collided(j))
                    => glast.ret = Some(radix_36(glast.drawn[k]))

\* The same with the draw that get() takes last and never tries left out:
\* None is returned after exactly max_iter draws collided, the first draw
\* included, and one more integer was drawn and discarded
C22_AsCoded ==
    /\ (gargs.strategy = "random" /\ gpc = "ready" /\ rgen.max_iter # None)
          => \A d \in [1..(Unwrap(rgen.max_iter) + 1) -> Range(rgen.min, rgen.max)] :
                 RandomIdGenerator_get_on(rgen, d).used # 0
    /\ CappedGet =>
          /\ glast.ret = None =>
                /\ Len(glast.drawn) = Unwrap(rgen.max_iter) + 1
                /\ \A k \in 1..Unwrap(rgen.max_iter) : Collided(k)
                /\ rgen.set = glast.before
          /\ glast.ret # None =>
                /\ Len(glast.drawn) <= Unwrap(rgen.max_iter)
                /\ \A k \in 1..(Len(glast.drawn) - 1) : Collided(k)
                /\ ~Collided(Len(glast.drawn))
                /\ glast.ret = Some(radix_36(glast.drawn[Len(glast.drawn)]))
                /\ rgen.set = glast.before \cup {glast.drawn[Len(glast.drawn)]}

\* The outcomes of get() over all draws are those RandomIdGenerator_get gives
GetOutcomesAgree ==
    (gargs.strategy = "random" /\ gpc = "ready")
        => RandomIdGenerator_get(rgen) =
              {<<RandomIdGenerator_get_on(rgen, d).ret, RandomIdGenerator_get_on(rgen, d).set>> :
                  d \in Draws(rgen)}

\* The tasks inside the generator: a worker from gen.lock() to the drop of
\* its guard, the cleanup thread from ids.lock() to the drop of its guard
InGenerator ==
    {w \in Workers : wk[w].pc \in {"persist", "saved", "failed"}}
        \cup (IF cl.pc = "unlock" THEN {"cleanup"} ELSE {})

\* The tasks blocked in lock()
AtLock ==
    {w \in Workers : wk[w].pc = "lock"} \cup (IF cl.pc = "lock" THEN {"cleanup"} ELSE {})

\* C23: at most one task, worker or cleanup thread, is inside the generator,
\* and it is the holder of the mutex; a worker that is between connections
\* or has closed its connection (after exhaustion, a failed write or a
\* success) does not hold the mutex; and while a task is blocked in lock()
\* the mutex is free or its holder can take its next step, so that no state
\* has the threads deadlocked on the mutex and the two queues.
C23_LockDiscipline ==
    /\ Cardinality(InGenerator) <= 1
    /\ InGenerator = (IF lock = "free" THEN {} ELSE {lock})
    /\ \A w \in Workers : wk[w].pc \in {"recv", "closed"} => lock # w
    /\ AtLock # {} =>
          \/ lock = "free"
          \/ lock \in Workers /\ ENABLED paste_worker(lock)
          \/ lock = "cleanup" /\ ENABLED cleanup_worker

\* A worker is inside the generator, about to persist, while the other
\* worker and the cleanup thread are both blocked in lock()
C23_Witness ==
    /\ \E w \in Workers : lock = w /\ wk[w].pc = "persist"
    /\ \E w \in Workers : wk[w].pc = "lock"
    /\ cl.pc = "lock"

====
